---- MODULE Spec2Model ----
(***************************************************************************)
(* Turn execution of CalculatorGreetingAgent (src/app/agent.py): the ReAct *)
(* graph built by create_react_agent over the shared MemorySaver, the      *)
(* async generator stream() that relays its steps as progress events, and  *)
(* get_agent_response() that classifies the last message of the thread.    *)
(*                                                                         *)
(* Texts are sequences of one-character strings, so that str.lower() and   *)
(* the substring test `keyword in content_lower` are computed, not assumed.*)
(***************************************************************************)
EXTENDS Integers, Sequences, FiniteSets, TLC

\* ------------------------------------------------------------------ bounds
MaxTurns == 2        \* calls of stream() in one behaviour
MaxModelCalls == 3   \* invocations of the model backend, over all turns

Turns == 1..MaxTurns
Sessions == {"ctxA", "ctxB"}     \* context_id values

\* ------------------------------------------------------------------- texts
PerformingCalculation == <<"P", "e", "r", "f", "o", "r", "m", "i", "n", "g", " ", "c", "a", "l", "c", "u", "l", "a", "t", "i", "o", "n", ".", ".", ".">>
PreparingGreeting == <<"P", "r", "e", "p", "a", "r", "i", "n", "g", " ", "g", "r", "e", "e", "t", "i", "n", "g", ".", ".", ".">>
ProcessingResult == <<"P", "r", "o", "c", "e", "s", "s", "i", "n", "g", " ", "r", "e", "s", "u", "l", "t", ".", ".", ".">>
UnableToProcess == <<"W", "e", " ", "a", "r", "e", " ", "u", "n", "a", "b", "l", "e", " ", "t", "o", " ", "p", "r", "o", "c", "e", "s", "s", " ", "y", "o", "u", "r", " ", "r", "e", "q", "u", "e", "s", "t", " ", "a", "t", " ", "t", "h", "e", " ", "m", "o", "m", "e", "n", "t", ".", " ", "P", "l", "e", "a", "s", "e", " ", "t", "r", "y", " ", "a", "g", "a", "i", "n", ".">>
DivisionByZero == <<"E", "r", "r", "o", "r", ":", " ", "D", "i", "v", "i", "s", "i", "o", "n", " ", "b", "y", " ", "z", "e", "r", "o">>
UnknownOperation == <<"E", "r", "r", "o", "r", ":", " ", "U", "n", "k", "n", "o", "w", "n", " ", "o", "p", "e", "r", "a", "t", "i", "o", "n">>
HelloPrefix == <<"H", "e", "l", "l", "o", " ">>
\* the last element stands for the single code point U+1F44B
NiceToMeetYou == <<"!", " ", "N", "i", "c", "e", " ", "t", "o", " ", "m", "e", "e", "t", " ", "y", "o", "u", "!", " ", "U+1F44B">>
friend == <<"f", "r", "i", "e", "n", "d">>
Keywords == << <<"n", "e", "e", "d", " ", "m", "o", "r", "e">>,
               <<"p", "l", "e", "a", "s", "e", " ", "p", "r", "o", "v", "i", "d", "e">>,
               <<"p", "l", "e", "a", "s", "e", " ", "s", "p", "e", "c", "i", "f", "y">>,
               <<"w", "h", "i", "c", "h">>,
               <<"c", "l", "a", "r", "i", "f", "y">> >>

UpperCase == <<"A", "B", "C", "D", "E", "F", "G", "H", "I", "J", "K", "L", "M", "N", "O", "P", "Q", "R", "S", "T", "U", "V", "W", "X", "Y", "Z">>
LowerCase == <<"a", "b", "c", "d", "e", "f", "g", "h", "i", "j", "k", "l", "m", "n", "o", "p", "q", "r", "s", "t", "u", "v", "w", "x", "y", "z">>
Digits == <<"0", "1", "2", "3", "4", "5", "6", "7", "8", "9">>

\* str.lower(), character by character
LowerChar(c) ==
    IF \E i \in 1..Len(UpperCase) : UpperCase[i] = c
    THEN LowerCase[CHOOSE i \in 1..Len(UpperCase) : UpperCase[i] = c]
    ELSE c

Lower(s) == [i \in 1..Len(s) |-> LowerChar(s[i])]

\* `k in s` for strings: the first offset at which k occurs, scanned left to right
RECURSIVE FindFrom(_, _, _)
FindFrom(k, s, i) ==
    IF i + Len(k) - 1 > Len(s) THEN FALSE
    ELSE IF SubSeq(s, i, i + Len(k) - 1) = k THEN TRUE
    ELSE FindFrom(k, s, i + 1)

StrIn(k, s) == FindFrom(k, s, 1)

\* any(keyword in content_lower for keyword in [...]), in list order
RECURSIVE AnyKeywordFrom(_, _)
AnyKeywordFrom(content_lower, j) ==
    IF j > Len(Keywords) THEN FALSE
    ELSE IF StrIn(Keywords[j], content_lower) THEN TRUE
    ELSE AnyKeywordFrom(content_lower, j + 1)

AnyKeyword(content_lower) == AnyKeywordFrom(content_lower, 1)

\* ------------------------------------------------------------------ floats
\* A float is a sign bit and a magnitude in hundredths; the inputs below keep
\* every result exact at that scale.
Scale == 100

Abs(n) == IF n < 0 THEN -n ELSE n

ToFloat(n) == [neg |-> n < 0, mag |-> Scale * Abs(n)]

Signed(x) == IF x.neg THEN -x.mag ELSE x.mag

FAdd(x, y) ==
    LET s == Signed(x) + Signed(y)
    IN  IF s = 0 THEN [neg |-> x.neg /\ y.neg, mag |-> 0]
        ELSE [neg |-> s < 0, mag |-> Abs(s)]

FSub(x, y) == FAdd(x, [neg |-> ~y.neg, mag |-> y.mag])

FMul(x, y) == [neg |-> x.neg # y.neg, mag |-> (x.mag * y.mag) \div Scale]

FDiv(x, y) == [neg |-> x.neg # y.neg, mag |-> (x.mag * Scale) \div y.mag]

RECURSIVE NatStr(_)
NatStr(n) == IF n < 10 THEN <<Digits[n + 1]>>
             ELSE NatStr(n \div 10) \o <<Digits[(n % 10) + 1]>>

\* str(float): shortest repr, always with a fractional part
StrFloat(x) ==
    LET whole == x.mag \div Scale
        frac  == x.mag % Scale
        fracStr == IF frac % 10 = 0 THEN <<Digits[(frac \div 10) + 1]>>
                   ELSE <<Digits[(frac \div 10) + 1], Digits[(frac % 10) + 1]>>
    IN  (IF x.neg THEN <<"-">> ELSE <<>>) \o NatStr(whole) \o <<".">> \o fracStr

\* ------------------------------------------------------------------- tools
\* variant: an unknown operation handled as an addition
calculatorDefaultsToAdd(operation, a, b) ==
    IF operation = "subtract" THEN StrFloat(FSub(a, b))
    ELSE IF operation = "multiply" THEN StrFloat(FMul(a, b))
    ELSE IF operation = "divide" THEN
        IF b.mag = 0 THEN DivisionByZero
        ELSE StrFloat(FDiv(a, b))
    ELSE StrFloat(FAdd(a, b))

calculator(operation, a, b) ==
    IF operation = "add" THEN StrFloat(FAdd(a, b))
    ELSE IF operation = "subtract" THEN StrFloat(FSub(a, b))
    ELSE IF operation = "multiply" THEN StrFloat(FMul(a, b))
    ELSE IF operation = "divide" THEN
        IF b.mag = 0 THEN DivisionByZero
        ELSE StrFloat(FDiv(a, b))
    ELSE UnknownOperation

get_greeting(name) == HelloPrefix \o name \o NiceToMeetYou

\* ---------------------------------------------------------------- messages
HumanMessage(text) ==
    [type |-> "human", content |-> text, is_str |-> TRUE, tool_calls |-> <<>>, name |-> ""]

AIMessage(text, is_str, tool_calls) ==
    [type |-> "ai", content |-> text, is_str |-> is_str, tool_calls |-> tool_calls, name |-> ""]

ToolMessage(text, tool_name) ==
    [type |-> "tool", content |-> text, is_str |-> TRUE, tool_calls |-> <<>>, name |-> tool_name]

ToolCall(tool_name, args) == [name |-> tool_name, args |-> args]

NoArgs == [p \in {} |-> 0]

\* ------------------------------------------------- inputs of the behaviours
\* user utterances
Queries == { <<"2", "5", "+", "1", "7", "?">> }

\* tool-call batches the model may emit
CalcAdd == ToolCall("calculator", [operation |-> "add", a |-> 25, b |-> 17])
CalcDivZero == ToolCall("calculator", [operation |-> "divide", a |-> 144, b |-> 0])
CalcDivide == ToolCall("calculator", [operation |-> "divide", a |-> -3, b |-> 4])
CalcPower == ToolCall("calculator", [operation |-> "power", a |-> 2, b |-> 3])
GreetBob == ToolCall("get_greeting", [name |-> <<"B", "o", "b">>])
GreetDefault == ToolCall("get_greeting", NoArgs)
OtherTool == ToolCall("search", NoArgs)

ToolBatches == { <<CalcAdd>>, <<CalcDivZero>>, <<CalcPower>>,
                 <<GreetBob, CalcDivide>>, <<CalcDivide, GreetDefault>>,
                 <<OtherTool>> }

\* final texts the model may answer with
AnswerTexts == { <<"I", "t", " ", "i", "s", " ", "4", "2", ".", "0">>,
                 <<"W", "h", "i", "c", "h", " ", "o", "n", "e", "?">>,
                 <<"A", " ", "w", "i", "t", "c", "h">>,
                 <<"I", " ", "N", "E", "E", "D", " ", "M", "O", "R", "E">>,
                 <<"P", "l", "e", "a", "s", "e", " ", "p", "r", "o", "v", "i", "d", "e", " ", "b">>,
                 <<"p", "l", "e", "a", "s", "e", " ", "S", "p", "e", "c", "i", "f", "y">>,
                 <<"C", "l", "a", "r", "i", "f", "y", "?">>,
                 <<>> }

\* messages the model backend may return: an answer (string content, possibly
\* empty, or a list of content blocks) or a message carrying tool calls
ModelReplies ==
    {AIMessage(txt, TRUE, <<>>) : txt \in AnswerTexts}
      \cup {AIMessage(<<"I", "t", " ", "i", "s">>, FALSE, <<>>)}
      \cup {AIMessage(<<>>, TRUE, batch) : batch \in ToolBatches}
      \cup {AIMessage(<<"W", "h", "i", "c", "h">>, TRUE, <<CalcAdd>>)}

\* the replies drawn while turns run
TurnReplies ==
    { AIMessage(<<"I", "t", " ", "i", "s", " ", "4", "2", ".", "0">>, TRUE, <<>>),
      AIMessage(<<"W", "h", "i", "c", "h", " ", "o", "n", "e", "?">>, TRUE, <<>>),
      AIMessage(<<>>, TRUE, <<>>),
      AIMessage(<<>>, TRUE, <<CalcDivZero>>),
      AIMessage(<<>>, TRUE, <<GreetBob, CalcDivide>>),
      AIMessage(<<>>, TRUE, <<OtherTool>>) }

\* ------------------------------------------------------------------- state
VARIABLES
    memory,      \* MemorySaver: thread_id -> messages of the latest checkpoint
    pc,          \* per turn: idle, agent, tools, classify, done, failed, cancelled
    ctx,         \* per turn: its context_id
    channels,    \* per turn: the messages channel of its running graph
    events,      \* per turn: the records stream() has yielded so far
    running,     \* the turn executing on the event loop ({} while all are suspended)
    modelCalls,  \* invocations of the model backend so far
    resp         \* last call of get_agent_response (none yet: <<>>): the
                 \* messages it read and the record it returned

vars == <<memory, pc, ctx, channels, events, running, modelCalls, resp>>

\* --------------------------------------------------------- the ReAct graph
\* the prebuilt tools node: every call of the last AI message is executed, in
\* order, each giving one ToolMessage; an unknown tool name gives an error text
InvokeTool(call) ==
    IF call.name = "calculator"
    THEN calculator(call.args.operation, ToFloat(call.args.a), ToFloat(call.args.b))
    ELSE IF call.name = "get_greeting"
    THEN get_greeting(IF "name" \in DOMAIN call.args THEN call.args.name ELSE friend)
    ELSE <<"E", "r", "r", "o", "r", ":", " ", call.name, " ", "i", "s", " ", "n", "o", "t", " ", "a", " ", "v", "a", "l", "i", "d", " ", "t", "o", "o", "l">>

\* variant: a tools node that runs the first call of the batch only
ToolNodeFirstOnly(tool_calls) ==
    <<ToolMessage(InvokeTool(tool_calls[1]), tool_calls[1].name)>>

ToolNode(tool_calls) ==
    [i \in 1..Len(tool_calls) |-> ToolMessage(InvokeTool(tool_calls[i]), tool_calls[i].name)]

\* ------------------------------------------------------------------ stream
\* variant: a progress record that asks for user input
ProgressEventAsksInput(text) ==
    [is_task_complete |-> FALSE, require_user_input |-> TRUE, content |-> text]

ProgressEvent(text) ==
    [is_task_complete |-> FALSE, require_user_input |-> FALSE, content |-> text]

\* variant: a loop body that also yields a completion record for the answer
StreamItemAnswerToo(message) ==
    IF message.type = "ai" /\ Len(message.tool_calls) > 0
    THEN <<[is_task_complete |-> FALSE, require_user_input |-> FALSE,
            content |-> PerformingCalculation]>>
    ELSE IF message.type = "tool"
    THEN <<[is_task_complete |-> FALSE, require_user_input |-> FALSE,
            content |-> ProcessingResult]>>
    ELSE IF message.type = "ai"
    THEN <<[is_task_complete |-> TRUE, require_user_input |-> FALSE,
            content |-> message.content]>>
    ELSE <<>>

\* variant: the progress text chosen from the last call of the batch
StreamItemLastCall(message) ==
    IF message.type = "ai" /\ Len(message.tool_calls) > 0
    THEN IF message.tool_calls[Len(message.tool_calls)].name = "calculator"
         THEN <<ProgressEvent(PerformingCalculation)>>
         ELSE IF message.tool_calls[Len(message.tool_calls)].name = "get_greeting"
         THEN <<ProgressEvent(PreparingGreeting)>>
         ELSE <<>>
    ELSE IF message.type = "tool"
    THEN <<ProgressEvent(ProcessingResult)>>
    ELSE <<>>

\* variant: no record for a tool result
StreamItemNoResultEvent(message) ==
    IF message.type = "ai" /\ Len(message.tool_calls) > 0
    THEN IF message.tool_calls[1].name = "calculator"
         THEN <<ProgressEvent(PerformingCalculation)>>
         ELSE IF message.tool_calls[1].name = "get_greeting"
         THEN <<ProgressEvent(PreparingGreeting)>>
         ELSE <<>>
    ELSE <<>>

\* variant: the tool-result branch taken for every other item
StreamItemElse(message) ==
    IF message.type = "ai" /\ Len(message.tool_calls) > 0
    THEN IF message.tool_calls[1].name = "calculator"
         THEN <<ProgressEvent(PerformingCalculation)>>
         ELSE IF message.tool_calls[1].name = "get_greeting"
         THEN <<ProgressEvent(PreparingGreeting)>>
         ELSE <<>>
    ELSE <<ProgressEvent(ProcessingResult)>>

\* body of the for loop: the records yielded for one item of graph.stream
StreamItem(message) ==
    IF message.type = "ai" /\ Len(message.tool_calls) > 0
    THEN IF message.tool_calls[1].name = "calculator"
         THEN <<ProgressEvent(PerformingCalculation)>>
         ELSE IF message.tool_calls[1].name = "get_greeting"
         THEN <<ProgressEvent(PreparingGreeting)>>
         ELSE <<>>
    ELSE IF message.type = "tool"
    THEN <<ProgressEvent(ProcessingResult)>>
    ELSE <<>>

\* variant: a fallback record marked complete
FallbackCompleted ==
    [is_task_complete |-> TRUE, require_user_input |-> FALSE, content |-> UnableToProcess]

\* variant: a fallback record with neither flag set
FallbackNeither ==
    [is_task_complete |-> FALSE, require_user_input |-> FALSE, content |-> UnableToProcess]

Fallback ==
    [is_task_complete |-> FALSE, require_user_input |-> TRUE, content |-> UnableToProcess]

\* variant: an answer record with both flags set
get_agent_response_both(messages) ==
    IF Len(messages) > 0 /\ messages[Len(messages)].type = "ai"
       /\ Len(messages[Len(messages)].content) > 0
    THEN [is_task_complete |-> TRUE, require_user_input |-> TRUE,
          content |-> messages[Len(messages)].content]
    ELSE [is_task_complete |-> FALSE, require_user_input |-> TRUE, content |-> UnableToProcess]

\* variant: the keyword scan on the text as written, not lower-cased
get_agent_response_no_lower(messages) ==
    IF Len(messages) > 0 /\ messages[Len(messages)].type = "ai"
       /\ Len(messages[Len(messages)].content) > 0 /\ messages[Len(messages)].is_str
    THEN IF AnyKeyword(messages[Len(messages)].content)
         THEN [is_task_complete |-> FALSE, require_user_input |-> TRUE,
               content |-> messages[Len(messages)].content]
         ELSE [is_task_complete |-> TRUE, require_user_input |-> FALSE,
               content |-> messages[Len(messages)].content]
    ELSE [is_task_complete |-> FALSE, require_user_input |-> TRUE, content |-> UnableToProcess]

get_agent_response(messages) ==
    IF Len(messages) > 0
    THEN LET last_message == messages[Len(messages)]
         IN  IF last_message.type = "ai" /\ Len(last_message.content) > 0
             THEN IF last_message.is_str
                  THEN IF AnyKeyword(Lower(last_message.content))
                       THEN [is_task_complete |-> FALSE, require_user_input |-> TRUE,
                             content |-> last_message.content]
                       ELSE [is_task_complete |-> TRUE, require_user_input |-> FALSE,
                             content |-> last_message.content]
                  ELSE Fallback
             ELSE Fallback
    ELSE Fallback

\* ----------------------------------------------------------------- actions
Init ==
    /\ memory = [s \in Sessions |-> <<>>]
    /\ pc = [t \in Turns |-> "idle"]
    /\ ctx = [t \in Turns |-> "ctxA"]
    /\ channels = [t \in Turns |-> <<>>]
    /\ events = [t \in Turns |-> <<>>]
    /\ running = {}
    /\ modelCalls = 0
    /\ resp = <<>>

\* a coroutine runs when the event loop is free or it already holds it
CanRun(t) == running \subseteq {t}

\* variant: a store that is not keyed by thread_id, every thread gets the save
SuperstepAllThreads(t, thread_id, messages, next) ==
    LET yielded == StreamItem(messages[Len(messages)])
    IN  /\ channels' = [channels EXCEPT ![t] = messages]
        /\ memory' = [s \in Sessions |-> messages]
        /\ events' = [events EXCEPT ![t] = @ \o yielded]
        /\ running' = IF yielded = <<>> THEN {t} ELSE {}
        /\ pc' = [pc EXCEPT ![t] = next]

\* one superstep of the graph: the channel of the running graph is updated and
\* saved whole as the latest checkpoint of the thread, the item is handed to the
\* for loop, which suspends at a yield if it yields (other coroutines run only
\* while every generator is suspended)
Superstep(t, thread_id, messages, next) ==
    LET yielded == StreamItem(messages[Len(messages)])
    IN  /\ channels' = [channels EXCEPT ![t] = messages]
        /\ memory' = [memory EXCEPT ![thread_id] = messages]
        /\ events' = [events EXCEPT ![t] = @ \o yielded]
        /\ running' = IF yielded = <<>> THEN {t} ELSE {}
        /\ pc' = [pc EXCEPT ![t] = next]

\* stream(query, context_id) is called and first pulled: the input is applied
StartTurn(t, s, query) ==
    /\ pc[t] = "idle"
    /\ \A u \in Turns : u < t => pc[u] # "idle"
    /\ running = {}
    /\ ctx' = [ctx EXCEPT ![t] = s]
    /\ Superstep(t, s, Append(memory[s], HumanMessage(query)), "agent")
    /\ UNCHANGED <<modelCalls, resp>>

\* variant: a loop that refuses a second tool-call step of a turn
ModelCallsToolsLimited(t, reply) ==
    /\ pc[t] = "agent"
    /\ CanRun(t)
    /\ Len(reply.tool_calls) > 0
    /\ \A i \in 1..Len(channels[t]) :
          Len(channels[t][i].tool_calls) > 0 =>
              \E k \in (i + 1)..Len(channels[t]) : channels[t][k].type = "human"
    /\ modelCalls < MaxModelCalls
    /\ modelCalls' = modelCalls + 1
    /\ Superstep(t, ctx[t], Append(channels[t], reply), "tools")
    /\ UNCHANGED <<ctx, resp>>

\* the agent node: the model returns a message with tool calls
ModelCallsTools(t, reply) ==
    /\ pc[t] = "agent"
    /\ CanRun(t)
    /\ Len(reply.tool_calls) > 0
    /\ modelCalls < MaxModelCalls
    /\ modelCalls' = modelCalls + 1
    /\ Superstep(t, ctx[t], Append(channels[t], reply), "tools")
    /\ UNCHANGED <<ctx, resp>>

\* variant: the loop suspends at a yield for the final answer too, so that
\* other coroutines run before the classifier reads the store
ModelAnswersSuspends(t, reply) ==
    /\ pc[t] = "agent"
    /\ CanRun(t)
    /\ Len(reply.tool_calls) = 0
    /\ modelCalls < MaxModelCalls
    /\ modelCalls' = modelCalls + 1
    /\ channels' = [channels EXCEPT ![t] = Append(channels[t], reply)]
    /\ memory' = [memory EXCEPT ![ctx[t]] = Append(channels[t], reply)]
    /\ pc' = [pc EXCEPT ![t] = "classify"]
    /\ running' = {}
    /\ UNCHANGED <<ctx, events, resp>>

\* the agent node: the model returns a message without tool calls
ModelAnswers(t, reply) ==
    /\ pc[t] = "agent"
    /\ CanRun(t)
    /\ Len(reply.tool_calls) = 0
    /\ modelCalls < MaxModelCalls
    /\ modelCalls' = modelCalls + 1
    /\ Superstep(t, ctx[t], Append(channels[t], reply), "classify")
    /\ UNCHANGED <<ctx, resp>>

\* variant: a failure handler that still yields a classification
ModelFailsYieldsFallback(t) ==
    /\ pc[t] = "agent"
    /\ CanRun(t)
    /\ modelCalls < MaxModelCalls
    /\ modelCalls' = modelCalls + 1
    /\ pc' = [pc EXCEPT ![t] = "failed"]
    /\ events' = [events EXCEPT ![t] = Append(@, get_agent_response(memory[ctx[t]]))]
    /\ running' = {}
    /\ UNCHANGED <<memory, ctx, channels, resp>>

\* the agent node: the model backend raises; the exception leaves stream()
ModelFails(t) ==
    /\ pc[t] = "agent"
    /\ CanRun(t)
    /\ modelCalls < MaxModelCalls
    /\ modelCalls' = modelCalls + 1
    /\ pc' = [pc EXCEPT ![t] = "failed"]
    /\ running' = {}
    /\ UNCHANGED <<memory, ctx, channels, events, resp>>

\* variant: a tools step that aborts the turn on a tool error text
ToolsStepAborts(t) ==
    /\ pc[t] = "tools"
    /\ CanRun(t)
    /\ LET last == channels[t][Len(channels[t])]
           results == ToolNode(last.tool_calls)
       IN  IF \E i \in 1..Len(results) : results[i].content \in {DivisionByZero, UnknownOperation}
           THEN /\ pc' = [pc EXCEPT ![t] = "failed"]
                /\ running' = {}
                /\ UNCHANGED <<memory, channels, events>>
           ELSE Superstep(t, ctx[t], channels[t] \o results, "agent")
    /\ UNCHANGED <<ctx, modelCalls, resp>>

\* the tools node
ToolsStep(t) ==
    /\ pc[t] = "tools"
    /\ CanRun(t)
    /\ LET last == channels[t][Len(channels[t])]
       IN  Superstep(t, ctx[t], channels[t] \o ToolNode(last.tool_calls), "agent")
    /\ UNCHANGED <<ctx, modelCalls, resp>>

\* after the loop: yield self.get_agent_response(config)
Classify(t) ==
    /\ pc[t] = "classify"
    /\ CanRun(t)
    /\ LET messages == memory[ctx[t]]
           out == get_agent_response(messages)
       IN  /\ resp' = <<[messages |-> messages, out |-> out]>>
           /\ events' = [events EXCEPT ![t] = Append(@, out)]
    /\ pc' = [pc EXCEPT ![t] = "done"]
    /\ running' = {}
    /\ UNCHANGED <<memory, ctx, channels, modelCalls>>

\* a generator suspended at a yield is one whose turn is under way while
\* another coroutine, or none, holds the event loop
Suspended(t) == pc[t] \in {"agent", "tools"} /\ t \notin running

\* variant: dropping the generator restores the thread to the history before
\* the last superstep of the turn
AbandonRollsBack(t) ==
    /\ Suspended(t)
    /\ running = {}
    /\ pc' = [pc EXCEPT ![t] = "cancelled"]
    /\ memory' = [memory EXCEPT ![ctx[t]] = SubSeq(@, 1, Len(@) - 1)]
    /\ UNCHANGED <<ctx, channels, events, running, modelCalls, resp>>

\* the caller stops pulling: the suspended generator is dropped or closed and
\* never resumed; stream() has no try/finally, so nothing else happens
Abandon(t) ==
    /\ Suspended(t)
    /\ running = {}
    /\ pc' = [pc EXCEPT ![t] = "cancelled"]
    /\ UNCHANGED <<memory, ctx, channels, events, running, modelCalls, resp>>

\* get_agent_response called on its own for a thread
GetAgentResponse(s) ==
    /\ running = {}
    /\ resp' = <<[messages |-> memory[s], out |-> get_agent_response(memory[s])]>>
    /\ UNCHANGED <<memory, pc, ctx, channels, events, running, modelCalls>>

Next ==
    \/ \E t \in Turns, s \in Sessions, q \in Queries : StartTurn(t, s, q)
    \/ \E t \in Turns, reply \in TurnReplies : ModelCallsTools(t, reply)
    \/ \E t \in Turns, reply \in TurnReplies : ModelAnswers(t, reply)
    \/ \E t \in Turns : ModelFails(t)
    \/ \E t \in Turns : ToolsStep(t)
    \/ \E t \in Turns : Classify(t)
    \/ \E t \in Turns : Abandon(t)

Spec == Init /\ [][Next]_vars

\* a caller that keeps pulling: no generator is dropped, and the classification
\* after the loop, which runs in the same resumption of the generator as the
\* model's last message, is taken once it can be; the turns share one thread
PullingReplies ==
    { AIMessage(<<"I", "t", " ", "i", "s", " ", "4", "2", ".", "0">>, TRUE, <<>>),
      AIMessage(<<>>, TRUE, <<CalcDivZero>>),
      AIMessage(<<>>, TRUE, <<OtherTool>>) }

NextPulling ==
    \/ \E t \in Turns, q \in Queries : StartTurn(t, "ctxA", q)
    \/ \E t \in Turns, reply \in PullingReplies : ModelCallsTools(t, reply)
    \/ \E t \in Turns, reply \in PullingReplies : ModelAnswers(t, reply)
    \/ \E t \in Turns : ModelFails(t)
    \/ \E t \in Turns : ToolsStep(t)
    \/ \E t \in Turns : Classify(t)

FairSpec ==
    /\ Init
    /\ [][NextPulling]_vars
    /\ WF_vars(\E t \in Turns : Classify(t))

\* ------------------------------------------- the classifier on its own
\* histories a thread can hold: the prefixes of a turn on a fresh thread that
\* are in the store when a coroutine other than the turn can run
ThreadHistories ==
    {<<>>}
      \cup {<<HumanMessage(q)>> : q \in Queries}
      \cup {<<HumanMessage(q), r>> :
              q \in Queries, r \in {m \in ModelReplies : Len(m.tool_calls) = 0 \/ StreamItem(m) # <<>>}}
      \cup {<<HumanMessage(q), r>> \o ToolNode(r.tool_calls) :
              q \in Queries, r \in {m \in ModelReplies : Len(m.tool_calls) > 0}}

ClassifierInit ==
    /\ memory \in [Sessions -> ThreadHistories]
    /\ pc = [t \in Turns |-> "idle"]
    /\ ctx = [t \in Turns |-> "ctxA"]
    /\ channels = [t \in Turns |-> <<>>]
    /\ events = [t \in Turns |-> <<>>]
    /\ running = {}
    /\ modelCalls = 0
    /\ resp = <<>>

ClassifierNext == \E s \in Sessions : GetAgentResponse(s)

ClassifierSpec == ClassifierInit /\ [][ClassifierNext]_vars

\* ------------------------------------------------------------------ claims
Last(seq) == seq[Len(seq)]

IsPrefix(p, q) == Len(p) <= Len(q) /\ SubSeq(q, 1, Len(p)) = p

IsTerminal(e) == e.is_task_complete \/ e.require_user_input

InFlight(t) == pc[t] \in {"agent", "tools", "classify"}

\* C1: the terminal record of a turn never has both is_task_complete and
\* require_user_input true.
C1_TerminalNeverBothFlags ==
    \A t \in Turns :
        pc[t] = "done" =>
            ~(Last(events[t]).is_task_complete /\ Last(events[t]).require_user_input)

C1_Witness ==
    \E t \in Turns :
        /\ pc[t] = "done"
        /\ Last(events[t]).is_task_complete
        /\ ~Last(events[t]).require_user_input

\* C2: a turn that ends without backend failure has exactly one terminal
\* record, it is the last element of its event sequence, no turn that has not
\* ended holds one, and nothing is emitted after it.
C2_OneTerminalLast ==
    [][\A t \in Turns :
          /\ pc'[t] = "done" =>
                /\ Len(events'[t]) >= 1
                /\ IsTerminal(Last(events'[t]))
                /\ \A i \in 1..(Len(events'[t]) - 1) : ~IsTerminal(events'[t][i])
          /\ pc'[t] # "done" =>
                \A i \in 1..Len(events'[t]) : ~IsTerminal(events'[t][i])
          /\ pc[t] = "done" => (pc'[t] = "done" /\ events'[t] = events[t])]_vars

C2_Witness ==
    \E t \in Turns :
        /\ pc[t] = "done"
        /\ Len(events[t]) = 3
        /\ events[t][1].content = PerformingCalculation
        /\ events[t][2].content = ProcessingResult

\* C3: every record yielded before the terminal record has is_task_complete
\* and require_user_input both false.
C3_IntermediateFlagsFalse ==
    \A t \in Turns : \A i \in 1..Len(events[t]) :
        (pc[t] # "done" \/ i < Len(events[t])) =>
            (events[t][i].is_task_complete = FALSE /\ events[t][i].require_user_input = FALSE)

C3_Witness ==
    \E t \in Turns :
        /\ pc[t] = "agent"
        /\ Len(events[t]) = 2
        /\ events[t][1].content = PreparingGreeting

\* the five trigger phrases as the claim lists them
TriggerPhrases ==
    { <<"n", "e", "e", "d", " ", "m", "o", "r", "e">>,
      <<"p", "l", "e", "a", "s", "e", " ", "p", "r", "o", "v", "i", "d", "e">>,
      <<"p", "l", "e", "a", "s", "e", " ", "s", "p", "e", "c", "i", "f", "y">>,
      <<"w", "h", "i", "c", "h">>,
      <<"c", "l", "a", "r", "i", "f", "y">> }

\* text contains phrase somewhere, letters compared without regard to case
MentionsPhrase(text, phrase) ==
    \E off \in 0..(Len(text) - Len(phrase)) :
        \A j \in 1..Len(phrase) : LowerChar(text[off + j]) = phrase[j]

UsableAnswer(messages) ==
    /\ messages # <<>>
    /\ Last(messages).type = "ai"
    /\ Last(messages).is_str
    /\ Last(messages).content # <<>>

\* C4: when the last message is an agent message with non-empty text, the
\* record asks for user input iff the text mentions a trigger phrase (case
\* ignored), is complete otherwise, and carries the text unmodified.
C4_KeywordClassification ==
    \A k \in 1..Len(resp) :
        UsableAnswer(resp[k].messages) =>
            LET text == Last(resp[k].messages).content
                asks == \E phrase \in TriggerPhrases : MentionsPhrase(text, phrase)
            IN  /\ resp[k].out.content = text
                /\ resp[k].out.require_user_input = asks
                /\ resp[k].out.is_task_complete = ~asks

C4_Witness ==
    \E k \in 1..Len(resp) :
        /\ UsableAnswer(resp[k].messages)
        /\ Last(resp[k].messages).content = <<"I", " ", "N", "E", "E", "D", " ", "M", "O", "R", "E">>
        /\ resp[k].out.require_user_input

\* C5: with no messages, or a last message that is not an agent message with
\* non-empty string text, classification returns the fallback record.
C5_FallbackRecord ==
    \A k \in 1..Len(resp) :
        ~UsableAnswer(resp[k].messages) =>
            /\ resp[k].out.is_task_complete = FALSE
            /\ resp[k].out.require_user_input = TRUE
            /\ resp[k].out.content = UnableToProcess

C5_Witness ==
    \E k \in 1..Len(resp) :
        /\ resp[k].messages # <<>>
        /\ Last(resp[k].messages).type = "ai"
        /\ ~Last(resp[k].messages).is_str
        /\ resp[k].out.content = UnableToProcess

ToolsStepOf(t) == pc[t] = "tools" /\ pc'[t] = "agent"

C7_FailureEmitsNothing ==
    [][\A t \in Turns :
          /\ pc'[t] = "failed" =>
                /\ events'[t] = events[t]
                /\ \A i \in 1..Len(events'[t]) : ~IsTerminal(events'[t][i])
          /\ pc[t] = "failed" => pc'[t] = "failed"]_vars

C7_Witness ==
    \E t \in Turns : pc[t] = "failed" /\ Len(events[t]) = 2

ToolErrors == {DivisionByZero, UnknownOperation}

\* C8: a tool call returning an error string does not abort the turn: the
\* string is appended as an ordinary tool result, the model is asked again,
\* a turn fails only at a model call, and a turn that ends after a tool error
\* ends in a terminal record with exactly one flag true.
C8_ToolErrorIsSoft ==
    [][\A t \in Turns :
          /\ (ToolsStepOf(t) /\ \E i \in 1..Len(Last(channels[t]).tool_calls) :
                                  InvokeTool(Last(channels[t]).tool_calls[i]) \in ToolErrors)
                => /\ pc'[t] = "agent"
                   /\ \E i \in (Len(channels[t]) + 1)..Len(memory'[ctx[t]]) :
                         /\ memory'[ctx[t]][i].type = "tool"
                         /\ memory'[ctx[t]][i].content \in ToolErrors
          /\ (pc[t] # "failed" /\ pc'[t] = "failed") => pc[t] = "agent"
          /\ pc'[t] = "done" =>
                (Last(events'[t]).is_task_complete # Last(events'[t]).require_user_input)]_vars

C8_Witness ==
    \E t \in Turns :
        /\ pc[t] = "done"
        /\ \E i \in 1..Len(channels[t]) :
              channels[t][i].type = "tool" /\ channels[t][i].content = DivisionByZero

\* C9: at most one turn is in flight per context_id at any time.
C9_OneTurnPerSession ==
    \A t, u \in Turns : (t # u /\ InFlight(t) /\ InFlight(u)) => ctx[t] # ctx[u]

\* C10: the history stored for a context_id only grows: every step leaves
\* the history it had as a prefix of the history it has.
C10_HistoryAppendOnly ==
    [][\A s \in Sessions : IsPrefix(memory[s], memory'[s])]_vars

\* C11: when the caller stops pulling, or the backend fails, the step changes
\* no stored history and no channel; if no other turn ran on the session the
\* store holds every message the turn appended; and a turn started afterwards
\* reads the whole stored history and appends its user message to it.
C11_PartialHistoryKept ==
    [][\A t \in Turns :
          /\ (pc'[t] \in {"cancelled", "failed"} /\ pc[t] # pc'[t]) =>
                /\ memory' = memory
                /\ channels' = channels
                /\ (\A u \in Turns \ {t} : pc[u] = "idle" \/ ctx[u] # ctx[t])
                      => memory'[ctx[t]] = channels[t]
          /\ (pc[t] = "idle" /\ pc'[t] # "idle") =>
                /\ IsPrefix(memory[ctx'[t]], channels'[t])
                /\ Len(channels'[t]) = Len(memory[ctx'[t]]) + 1
                /\ Last(channels'[t]).type = "human"]_vars

C11_Witness ==
    \E t, u \in Turns :
        /\ pc[t] = "cancelled"
        /\ pc[u] \notin {"idle", "cancelled"}
        /\ t < u
        /\ ctx[u] = ctx[t]
        /\ Len(channels[t]) >= 3
        /\ IsPrefix(channels[t], channels[u])
        /\ Len(channels[u]) > Len(channels[t])

\* ------------------------------------------- one model step and its tools
\* calculator calls over a grid of operations and operands
Operations == {"add", "subtract", "multiply", "divide", "power"}
OperandsA == {-3, 0, 6, 25}
OperandsB == {-2, 0, 4, 5}

CalculatorCalls ==
    {ToolCall("calculator", [operation |-> op, a |-> x, b |-> y]) :
        op \in Operations, x \in OperandsA, y \in OperandsB}

StepReplies ==
    {m \in ModelReplies : Len(m.tool_calls) > 0}
      \cup {AIMessage(<<>>, TRUE, <<call>>) : call \in CalculatorCalls}

\* a turn on a fresh thread at its first model step, one model call left
StepInit ==
    \E q \in Queries :
        /\ memory = [s \in Sessions |-> IF s = "ctxA" THEN <<HumanMessage(q)>> ELSE <<>>]
        /\ pc = [t \in Turns |-> IF t = 1 THEN "agent" ELSE "idle"]
        /\ ctx = [t \in Turns |-> "ctxA"]
        /\ channels = [t \in Turns |-> IF t = 1 THEN <<HumanMessage(q)>> ELSE <<>>]
        /\ events = [t \in Turns |-> <<>>]
        /\ running = {1}
        /\ modelCalls = MaxModelCalls - 1
        /\ resp = <<>>

StepNext ==
    \/ \E reply \in StepReplies : ModelCallsTools(1, reply)
    \/ ToolsStep(1)

StepSpec == StepInit /\ [][StepNext]_vars

\* reading a decimal text back: sign, digits, a point, one or two digits
IsDigit(c) == \E d \in 0..9 : Digits[d + 1] = c

DigitVal(c) == CHOOSE d \in 0..9 : Digits[d + 1] = c

RECURSIVE DigitsVal(_)
DigitsVal(ds) ==
    IF ds = <<>> THEN 0
    ELSE 10 * DigitsVal(SubSeq(ds, 1, Len(ds) - 1)) + DigitVal(ds[Len(ds)])

Unsigned(text) == IF text # <<>> /\ text[1] = "-" THEN Tail(text) ELSE text

PointAt(text) == CHOOSE i \in 1..Len(text) : text[i] = "."

IsDecimal(text) ==
    LET body == Unsigned(text)
    IN  /\ \E i \in 1..Len(body) : body[i] = "."
        /\ PointAt(body) > 1
        /\ Len(body) - PointAt(body) \in {1, 2}
        /\ \A i \in 1..Len(body) : i # PointAt(body) => IsDigit(body[i])

\* the value of a decimal text, in hundredths
Hundredths(text) ==
    LET body == Unsigned(text)
        p == PointAt(body)
        frac == SubSeq(body, p + 1, Len(body))
        mag == 100 * DigitsVal(SubSeq(body, 1, p - 1))
                 + (IF Len(frac) = 1 THEN 10 * DigitVal(frac[1]) ELSE DigitsVal(frac))
    IN  IF text[1] = "-" THEN -mag ELSE mag

CalculatorResultOk(args, text) ==
    IF args.operation = "divide" /\ args.b = 0
    THEN text = <<"E", "r", "r", "o", "r", ":", " ", "D", "i", "v", "i", "s", "i", "o", "n", " ", "b", "y", " ", "z", "e", "r", "o">>
    ELSE IF args.operation \notin {"add", "subtract", "multiply", "divide"}
    THEN text = <<"E", "r", "r", "o", "r", ":", " ", "U", "n", "k", "n", "o", "w", "n", " ", "o", "p", "e", "r", "a", "t", "i", "o", "n">>
    ELSE /\ IsDecimal(text)
         /\ args.operation = "add" => Hundredths(text) = 100 * (args.a + args.b)
         /\ args.operation = "subtract" => Hundredths(text) = 100 * (args.a - args.b)
         /\ args.operation = "multiply" => Hundredths(text) = 100 * (args.a * args.b)
         /\ args.operation = "divide" => Hundredths(text) * args.b = 100 * args.a

\* C12: every calculator call gets a text back: the division-by-zero text for
\* divide with b = 0, the unknown-operation text for an operation outside the
\* four, and otherwise a decimal text whose value is the arithmetic result.
C12_CalculatorResult ==
    \A t \in Turns : \A i \in 1..Len(channels[t]) :
        LET calls == channels[t][i].tool_calls
        IN  (channels[t][i].type = "ai" /\ Len(channels[t]) >= i + Len(calls)) =>
                \A j \in 1..Len(calls) :
                    calls[j].name = "calculator" =>
                        /\ channels[t][i + j].type = "tool"
                        /\ CalculatorResultOk(calls[j].args, channels[t][i + j].content)

C12_Witness ==
    \E t \in Turns :
        /\ pc[t] = "agent"
        /\ Len(channels[t]) = 3
        /\ channels[t][2].tool_calls = <<ToolCall("calculator", [operation |-> "divide", a |-> 25, b |-> 4])>>
        /\ channels[t][3].content = <<"6", ".", "2", "5">>

ModelToolStepOf(t) == pc[t] = "agent" /\ pc'[t] = "tools"

Yielded(t) == SubSeq(events'[t], Len(events[t]) + 1, Len(events'[t]))

Record(text) == [is_task_complete |-> FALSE, require_user_input |-> FALSE, content |-> text]

\* C13 as stated: a step in which the model decided to call calculator yields
\* "Performing calculation...", one in which it decided to call get_greeting
\* yields "Preparing greeting...", and a tool-result step yields
\* "Processing result...".
C13_EventPerToolDecided ==
    [][\A t \in Turns :
          /\ ModelToolStepOf(t) =>
                LET calls == Last(channels'[t]).tool_calls
                IN  /\ (\E j \in 1..Len(calls) : calls[j].name = "calculator")
                          => Record(PerformingCalculation) \in {Yielded(t)[k] : k \in 1..Len(Yielded(t))}
                    /\ (\E j \in 1..Len(calls) : calls[j].name = "get_greeting")
                          => Record(PreparingGreeting) \in {Yielded(t)[k] : k \in 1..Len(Yielded(t))}
          /\ ToolsStepOf(t) => Yielded(t) = <<Record(ProcessingResult)>>]_vars

\* C13 amended: a step whose model message has calculator as its first tool
\* call yields exactly "Performing calculation...", one whose first tool call
\* is get_greeting yields exactly "Preparing greeting...", a tool-result step
\* yields exactly "Processing result...", and records are only ever appended,
\* in the order of the steps.
C13_EventPerFirstCall ==
    [][\A t \in Turns :
          /\ IsPrefix(events[t], events'[t])
          /\ ModelToolStepOf(t) =>
                LET first == Last(channels'[t]).tool_calls[1].name
                IN  /\ first = "calculator" => Yielded(t) = <<Record(PerformingCalculation)>>
                    /\ first = "get_greeting" => Yielded(t) = <<Record(PreparingGreeting)>>
          /\ ToolsStepOf(t) => Yielded(t) = <<Record(ProcessingResult)>>]_vars

C13_Witness ==
    \E t \in Turns :
        /\ pc[t] = "agent"
        /\ Len(events[t]) = 2
        /\ events[t][1].content = PerformingCalculation
        /\ events[t][2].content = ProcessingResult

\* the messages a turn has appended itself follow its user message, the last
\* human message of its channel
TurnStart(t) == CHOOSE i \in 1..Len(channels[t]) :
                    /\ channels[t][i].type = "human"
                    /\ \A k \in (i + 1)..Len(channels[t]) : channels[t][k].type # "human"

OwnToolSteps(t) ==
    {i \in (TurnStart(t) + 1)..Len(channels[t]) :
        channels[t][i].type = "ai" /\ Len(channels[t][i].tool_calls) > 0}

KnownTools == {"calculator", "get_greeting"}

OnKnownTools(t) ==
    \A i \in OwnToolSteps(t) : \A j \in 1..Len(channels[t][i].tool_calls) :
        channels[t][i].tool_calls[j].name \in KnownTools

\* C14: a finished turn of n tool-call steps on known tools has yielded
\* exactly n pairs (tool-call event, "Processing result...") and then the
\* terminal record; and in every turn the "Processing result..." events are as
\* many as the tool-call steps whose results have been appended.
C14_PairsThenTerminal ==
    \A t \in Turns :
        pc[t] # "idle" =>
            LET n == Cardinality(OwnToolSteps(t))
                served == {i \in OwnToolSteps(t) : i < Len(channels[t])}
                results == {i \in 1..Len(events[t]) :
                               events[t][i] = Record(ProcessingResult)}
            IN  /\ Cardinality(results) = Cardinality(served)
                /\ (pc[t] = "done" /\ OnKnownTools(t)) =>
                      /\ Len(events[t]) = 2 * n + 1
                      /\ \A k \in 1..n :
                            /\ events[t][2 * k - 1] \in
                                  {Record(PerformingCalculation), Record(PreparingGreeting)}
                            /\ events[t][2 * k] = Record(ProcessingResult)
                      /\ IsTerminal(events[t][2 * n + 1])

C14_Witness ==
    \E t \in Turns :
        /\ pc[t] = "done"
        /\ OnKnownTools(t)
        /\ Cardinality(OwnToolSteps(t)) = 2
        /\ Len(events[t]) = 5

AnswerContent(messages) ==
    IF UsableAnswer(messages) THEN Last(messages).content ELSE UnableToProcess

\* C16: the content of the terminal record of a turn is the text of the last
\* agent message its own loop produced, or the fallback text when that message
\* has no usable text, whatever other turns did in between.
C16_TerminalReflectsOwnAnswer ==
    \A t \in Turns :
        pc[t] = "done" =>
            /\ Last(channels[t]).type = "ai"
            /\ Len(Last(channels[t]).tool_calls) = 0
            /\ Last(events[t]).content = AnswerContent(channels[t])

\* a turn has ended while an earlier turn of the same session is suspended in
\* the middle of its tool-call step, and the two hold different messages
C16_Witness ==
    \E t, u \in Turns :
        /\ t # u
        /\ ctx[t] = ctx[u]
        /\ pc[t] = "done"
        /\ pc[u] = "tools"
        /\ u < t
        /\ Last(channels[u]) # Last(channels[t])

\* the step is one of turn t: every operation moves exactly its own turn
StepOf(t) == pc'[t] # pc[t]

\* C17: a step of a turn run with context_id A leaves the history stored for
\* every other context_id as it was, and the terminal record of the turn is the
\* classification of the history of A alone.
C17_SessionsIsolated ==
    [][\A t \in Turns :
          StepOf(t) =>
              /\ \A b \in Sessions \ {ctx'[t]} : memory'[b] = memory[b]
              /\ pc'[t] = "done" =>
                    Last(events'[t]) = get_agent_response(memory[ctx[t]])]_vars

\* a turn has ended on one session while a turn started before it on the other
\* session is suspended in mid-step, and the two histories differ
C17_Witness ==
    \E t, u \in Turns :
        /\ u < t
        /\ ctx[t] # ctx[u]
        /\ pc[t] = "done"
        /\ pc[u] = "tools"
        /\ memory[ctx[t]] # <<>>
        /\ memory[ctx[u]] # <<>>
        /\ memory[ctx[t]] # memory[ctx[u]]

\* the status a terminal record stands for
TaskStatus(e) ==
    IF e.is_task_complete THEN "completed"
    ELSE IF e.require_user_input THEN "input_required"
    ELSE "error"

\* C18: the terminal record of a turn has exactly one of its two flags true,
\* so its status is completed or input_required, never error.
C18_ExactlyOneFlag ==
    \A t \in Turns :
        pc[t] = "done" =>
            /\ Last(events[t]).is_task_complete # Last(events[t]).require_user_input
            /\ TaskStatus(Last(events[t])) \in {"completed", "input_required"}

\* a turn whose tool returned an error text and whose model then gave no
\* usable answer has ended with the fallback record
C18_Witness ==
    \E t \in Turns :
        /\ pc[t] = "done"
        /\ \E i \in 1..Len(channels[t]) :
              channels[t][i].type = "tool" /\ channels[t][i].content \in ToolErrors
        /\ ~UsableAnswer(channels[t])
        /\ Last(events[t]).content = UnableToProcess

\* C19: the record of a tool-call step is chosen by the name of the first call
\* of the model's message alone, whatever the other calls of the batch are; the
\* step yields one record at most, and none when the first call names neither
\* calculator nor get_greeting.
C19_FirstCallNameOnly ==
    [][\A t \in Turns :
          ModelToolStepOf(t) =>
              LET tool_name == Last(channels'[t]).tool_calls[1].name
              IN  /\ Len(Yielded(t)) <= 1
                  /\ Yielded(t) =
                        IF tool_name = "get_greeting" THEN <<Record(PreparingGreeting)>>
                        ELSE IF tool_name = "calculator" THEN <<Record(PerformingCalculation)>>
                        ELSE <<>>]_vars

\* a batch that calls get_greeting first and calculator second has been
\* announced as a greeting
C19_Witness ==
    \E t \in Turns :
        /\ pc[t] = "tools"
        /\ Len(Last(channels[t]).tool_calls) = 2
        /\ Last(channels[t]).tool_calls[1].name = "get_greeting"
        /\ Last(channels[t]).tool_calls[2].name = "calculator"
        /\ events[t] = <<Record(PreparingGreeting)>>

====
